---------------------------- MODULE Spec2Model ----------------------------
(***************************************************************************)
(* A model of the enrichment pipeline of src/data_preprocessing.py:        *)
(* safe_eval, extract_details, extract_floor_num, haversine,               *)
(* get_metro_distances and process_raw_data; of the scraper of             *)
(* src/scrape_estate_details.py: get_estate_detail and run_scraping; and   *)
(* of load_and_prepare_data of src/unnamed/part_000.                       *)
(*                                                                         *)
(* Encodings.  Czech labels are written in ASCII ("Uzitna ploch" for the   *)
(* source's 'Užitná ploch').  A text is a sequence of text chunks; the     *)
(* chunks are chosen so that a label or marker occurs in a text exactly    *)
(* when it is one of its chunks.  A missing value (None, NaN) is the empty *)
(* sequence << >> and a present value v is << v >>.  A Python scalar is a  *)
(* record [t, s, n]: its type, its text (str) and its number (int, bool).  *)
(***************************************************************************)
EXTENDS Integers, Sequences, FiniteSets, TLC

VARIABLES
    pc,         \* position of the running call
    arg,        \* argument of the function under check
    ret,        \* what the function returned: [exc, ...]
    rawFile,    \* the raw listing file at raw_data_path (<< >>: no such file)
    metroFile,  \* the station file at metro_path (<< >>: no such file)
    outputPath, \* whether process_raw_data was given an output_path
    df,         \* the DataFrame process_raw_data works on
    err,        \* the exception process_raw_data raised ("" for none)
    outFile,    \* the file at output_path (<< >>: not written)
    tasks,      \* run_scraping: the get_estate_detail task of each hash_id
    semaphore,  \* run_scraping: the value of the semaphore
    completed,  \* run_scraping: the tasks' records, in order of completion
    scrape_results, \* run_scraping: the results it returned (<< >>: not yet)
    flats       \* the DataFrame load_and_prepare_data works on

scrapeVars == <<tasks, semaphore, completed, scrape_results>>
restVars == <<scrapeVars, flats>>
vars == <<pc, arg, ret, rawFile, metroFile, outputPath, df, err, outFile,
          restVars>>

---------------------------------------------------------------------------
(* Python values *)

PyNone == [t |-> "none", s |-> << >>, n |-> 0]
PyStr(text) == [t |-> "str", s |-> text, n |-> 0]
PyInt(k) == [t |-> "int", s |-> << >>, n |-> k]
PyBool(b) == [t |-> "bool", s |-> << >>, n |-> IF b THEN 1 ELSE 0]

\* bool(v): None, '', 0 and False are falsy
Truthy(v) ==
    CASE v.t = "none" -> FALSE
      [] v.t = "str" -> v.s # << >>
      [] v.t = "nan" -> TRUE
      [] OTHER -> v.n # 0

\* An entry of a detail list: a mapping with an optional name and an
\* optional value, or something that is not a mapping.
Mapping(hasname, name, hasvalue, value) ==
    [isdict |-> TRUE, hasname |-> hasname, name |-> name,
     hasvalue |-> hasvalue, value |-> value]
NonMapping ==
    [isdict |-> FALSE, hasname |-> FALSE, name |-> PyNone,
     hasvalue |-> FALSE, value |-> PyNone]

\* item.get(key): the value under the key, None without it
ItemGet(item, key) ==
    IF key = "name"
    THEN (IF item.hasname THEN item.name ELSE PyNone)
    ELSE (IF item.hasvalue THEN item.value ELSE PyNone)

EmptyDict == << >>
\* d[k] = v
Put(d, k, v) == [x \in (DOMAIN d) \cup {k} |-> IF x = k THEN v ELSE d[x]]

(* A cell of a blob column, by what ast.literal_eval makes of it:          *)
(*   "list"       the text of a list literal (items)                       *)
(*   "dict"       the text of a dict literal (d)                           *)
(*   "scalar"     the text of a number literal                             *)
(*   "marker"     the scraper's "Error: ..." string                        *)
(*   "garbage"    other text that is no Python expression                  *)
(*   "name"       an expression that is no literal, such as abc            *)
(*   "nonstr"     a cell that is no string: NaN of an empty CSV field      *)
(*   "unhashable" a dict or set display with a list as key: {[1]: 2}       *)
ListBlob(items) == [form |-> "list", items |-> items, d |-> EmptyDict]
DictBlob(d) == [form |-> "dict", items |-> << >>, d |-> d]
OtherBlob(form) == [form |-> form, items |-> << >>, d |-> EmptyDict]
NoneValue == OtherBlob("none")

Returned(v) == [exc |-> "", val |-> v]
Raised(e) == [exc |-> e, val |-> NoneValue]

\* ast.literal_eval(x)
literal_eval(x) ==
    CASE x.form \in {"marker", "garbage"} -> Raised("SyntaxError")
      [] x.form \in {"name", "nonstr"} -> Raised("ValueError")
      [] x.form = "unhashable" -> Raised("TypeError")
      [] OTHER -> Returned(x)

safe_eval_caught == {"ValueError", "SyntaxError"}

safe_eval(x) ==
    LET r == literal_eval(x)
    IN  IF r.exc \in safe_eval_caught THEN Returned(NoneValue) ELSE r

---------------------------------------------------------------------------
(* extract_details *)

\* The elif chain of extract_details, in its order: label, key.
LabelRules ==
    << <<"Uzitna ploch", "usable_area">>,
       <<"Celkova plocha", "total_area">>,
       <<"Podlazi", "floor">>,
       <<"Stavba", "building_type">>,
       <<"Stav objektu", "building_condition">>,
       <<"Vlastnictvi", "ownership">>,
       <<"Terasa", "terrace">>,
       <<"Vytah", "elevator">> >>

\* label in name, for a name that is a str
Contains(label, text) == \E i \in DOMAIN text : text[i] = label

MatchingRules(text) ==
    {i \in DOMAIN LabelRules : Contains(LabelRules[i][1], text)}

\* the branch of the elif chain the name takes (0: none)
FirstRule(text) ==
    LET m == MatchingRules(text)
    IN  IF m = {} THEN 0 ELSE CHOOSE i \in m : \A j \in m : i <= j

\* One pass of the for loop's body over item, from the state acc.
DetailStep(acc, item) ==
    IF acc.exc # "" THEN acc
    ELSE IF ~item.isdict THEN acc
    ELSE LET name == ItemGet(item, "name")
             value == ItemGet(item, "value")
         IN  IF ~Truthy(name) THEN acc
             ELSE IF name.t # "str"
                  THEN [acc EXCEPT !.exc = "TypeError"]
                  ELSE LET r == FirstRule(name.s)
                       IN  IF r = 0 THEN acc
                           ELSE [acc EXCEPT
                                   !.map = Put(acc.map, LabelRules[r][2], value)]

RECURSIVE DetailLoop(_, _, _)
DetailLoop(acc, items, i) ==
    IF i > Len(items) THEN acc
    ELSE DetailLoop(DetailStep(acc, items[i]), items, i + 1)

\* extract_details(detail_str): [exc, map]; on an exception the map is lost
extract_details(detail_str) ==
    LET details_list == safe_eval(detail_str)
    IN  IF details_list.exc # ""
        THEN [exc |-> details_list.exc, map |-> EmptyDict]
        ELSE IF details_list.val.form # "list"
             THEN [exc |-> "", map |-> EmptyDict]
             ELSE LET r == DetailLoop([exc |-> "", map |-> EmptyDict],
                                      details_list.val.items, 1)
                  IN  IF r.exc # "" THEN [exc |-> r.exc, map |-> EmptyDict]
                      ELSE r

---------------------------------------------------------------------------
(* extract_floor_num *)

PyNaN == [t |-> "nan", s |-> << >>, n |-> 0]

\* str.lower() on one chunk of a floor text
LowerChunk(c) ==
    CASE c = "Prizemi" -> "prizemi"
      [] c = "SUTEREN" -> "suteren"
      [] c = "Patro" -> "patro"
      [] OTHER -> c
Lower(text) == [i \in DOMAIN text |-> LowerChunk(text[i])]

\* \d and int() of one digit
DigitValue(c) ==
    CASE c = "0" -> 0 [] c = "1" -> 1 [] c = "2" -> 2 [] c = "3" -> 3
      [] c = "4" -> 4 [] c = "5" -> 5 [] c = "6" -> 6 [] c = "7" -> 7
      [] c = "8" -> 8 [] c = "9" -> 9 [] OTHER -> -1
IsDigit(c) == DigitValue(c) >= 0

\* \d+ from position i, greedy: the last position of the run of digits
RECURSIVE DigitsEnd(_, _)
DigitsEnd(text, i) ==
    IF i + 1 <= Len(text) /\ IsDigit(text[i + 1])
    THEN DigitsEnd(text, i + 1) ELSE i

\* int() of the digits text[i..j]
RECURSIVE DigitsInt(_, _, _)
DigitsInt(text, i, j) ==
    IF j < i THEN 0
    ELSE 10 * DigitsInt(text, i, j - 1) + DigitValue(text[j])

\* whether -?\d+ matches at position i
MatchesAt(text, i) ==
    \/ IsDigit(text[i])
    \/ text[i] = "-" /\ i + 1 <= Len(text) /\ IsDigit(text[i + 1])

\* int(match.group(1)) of the match at position i
GroupInt(text, i) ==
    IF text[i] = "-"
    THEN 0 - DigitsInt(text, i + 1, DigitsEnd(text, i + 1))
    ELSE DigitsInt(text, i, DigitsEnd(text, i))

\* re.search(r'(-?\d+)', text): the leftmost position that matches (0: none)
ReSearch(text) ==
    LET m == {i \in DOMAIN text : MatchesAt(text, i)}
    IN  IF m = {} THEN 0 ELSE CHOOSE i \in m : \A j \in m : i <= j

extract_floor_num_markers_swapped(floor_str) ==
    IF floor_str.t # "str" THEN 0
    ELSE LET low == Lower(floor_str.s)
         IN  IF Contains("suteren", low) THEN -1
             ELSE IF Contains("prizemi", low) THEN 0
             ELSE LET at == ReSearch(low)
                  IN  IF at # 0 THEN GroupInt(low, at) ELSE 0

extract_floor_num(floor_str) ==
    IF floor_str.t # "str" THEN 0
    ELSE LET low == Lower(floor_str.s)
         IN  IF Contains("prizemi", low) THEN 0
             ELSE IF Contains("suteren", low) THEN -1
             ELSE LET at == ReSearch(low)
                  IN  IF at # 0 THEN GroupInt(low, at) ELSE 0

---------------------------------------------------------------------------
(* haversine, get_metro_distances *)

(* Coordinates are whole metres of arc on a sphere of radius 6371000 m:    *)
(* latitude k is k metres north of the equator, longitude k is k metres    *)
(* east along it.  Distances are haversine's, rounded to a metre.  Two     *)
(* points on one meridian are |dlat| apart; for the two meridians of the   *)
(* grid, 600 m apart, the formula of lines 100-107 gives the table below.  *)
Abs(x) == IF x < 0 THEN 0 - x ELSE x

HaversineAcross(lat1, lat2) ==
    LET lo == IF lat1 <= lat2 THEN lat1 ELSE lat2
        hi == IF lat1 <= lat2 THEN lat2 ELSE lat1
    IN  CASE hi - lo <= 1 -> 600
          [] lo = 0 /\ hi = 1000 -> 1166
          [] lo = 0 /\ hi = 1001 -> 1167
          [] lo = 0 /\ hi = 100000 -> 100002
          [] lo = 1000 /\ hi = 100000 -> 99002
          [] lo = 1001 /\ hi = 100000 -> 99001

\* haversine(lon1, lat1, lon2, lat2); NaN in, NaN out
haversine(lon1, lat1, lon2, lat2) ==
    IF lon1 = << >> \/ lat1 = << >> \/ lon2 = << >> \/ lat2 = << >>
    THEN << >>
    ELSE IF lon1[1] = lon2[1]
         THEN << Abs(lat1[1] - lat2[1]) >>
         ELSE << HaversineAcross(lat1[1], lat2[1]) >>

Sentinel == 99999

\* a < b on floats: False when a is NaN
Less(a, b) == a # << >> /\ a[1] < b

\* f'dist_{station_line}'
DistCol(line) ==
    CASE line = "A" -> "dist_A"
      [] line = "B" -> "dist_B"
      [] line = "C" -> "dist_C"
      [] OTHER -> "dist_other"

InitialResults ==
    [dist_A |-> Sentinel, dist_B |-> Sentinel, dist_C |-> Sentinel,
     nearest_name |-> << >>, global_min_dist |-> Sentinel]

\* One pass of the loop over metro_df.iterrows()
StationStep(results, flat_lat, flat_lon, station) ==
    LET dist == haversine(flat_lon, flat_lat, station.lng, station.lat)
        col_name == DistCol(station.line)
        r1 == IF col_name \in DOMAIN results /\ Less(dist, results[col_name])
              THEN [results EXCEPT ![col_name] = dist[1]]
              ELSE results
    IN  IF Less(dist, r1.global_min_dist)
        THEN [r1 EXCEPT !.global_min_dist = dist[1],
                        !.nearest_name = << station.name >>]
        ELSE r1

RECURSIVE StationLoop(_, _, _, _, _)
StationLoop(results, flat_lat, flat_lon, metro_df, i) ==
    IF i > Len(metro_df) THEN results
    ELSE StationLoop(StationStep(results, flat_lat, flat_lon, metro_df[i]),
                     flat_lat, flat_lon, metro_df, i + 1)

MissingResult ==
    [dist_A |-> << >>, dist_B |-> << >>, dist_C |-> << >>, nearest |-> << >>]

get_metro_distances_lat_only(flat_lat, flat_lon, metro_df) ==
    IF flat_lat = << >>
    THEN MissingResult
    ELSE LET r == StationLoop(InitialResults, flat_lat, flat_lon, metro_df, 1)
         IN  [dist_A |-> << r.dist_A >>, dist_B |-> << r.dist_B >>,
              dist_C |-> << r.dist_C >>, nearest |-> r.nearest_name]

\* get_metro_distances(row, metro_df), row given by its latitude and longitude
get_metro_distances(flat_lat, flat_lon, metro_df) ==
    IF flat_lat = << >> \/ flat_lon = << >>
    THEN MissingResult
    ELSE LET r == StationLoop(InitialResults, flat_lat, flat_lon, metro_df, 1)
         IN  [dist_A |-> << r.dist_A >>, dist_B |-> << r.dist_B >>,
              dist_C |-> << r.dist_C >>, nearest |-> r.nearest_name]

---------------------------------------------------------------------------
(* DataFrames *)

(* A frame has a set of columns, an index (the row labels, in row order)   *)
(* and its rows, each a function from the columns to cells.  The indicator *)
(* column that get_dummies names f'{column}_{level}' is kept apart, under  *)
(* the key <<column, level>> of dummies, as its sequence of 0/1 by row.     *)
Frame(columns, index, rows) ==
    [columns |-> columns, index |-> index, rows |-> rows, dummies |-> << >>]

RangeIndex(n) == [i \in 1..n |-> i - 1]

NoFrame == Frame({}, << >>, << >>)

---------------------------------------------------------------------------
(* Inputs of the functions checked on their own *)

MaxItems == 2
MaxFloorLen == 3
MaxStations == 2

SeqsUpTo(S, n) == UNION {[1..k -> S] : k \in 0..n}

Labels == {LabelRules[i][1] : i \in DOMAIN LabelRules}

\* names: each label alone, a label in lower case, a text with no label,
\* the empty text, and two labels in one name, the later rule's first
NameTexts ==
    {<<c>> : c \in Labels \cup {"uzitna ploch", "Cena"}}
      \cup {<<LabelRules[i + 1][1], LabelRules[i][1]>> :
              i \in 1..(Len(LabelRules) - 1)}
      \cup {<< >>}

NameValues == {PyStr(t) : t \in NameTexts} \cup {PyNone, PyInt(5)}

ItemValues == {PyInt(1), PyInt(2)}

Items ==
    {Mapping(TRUE, name, TRUE, v) : name \in NameValues, v \in ItemValues}
      \cup {Mapping(FALSE, PyNone, TRUE, PyInt(1)),
            Mapping(TRUE, PyStr(<<"Uzitna ploch">>), FALSE, PyNone),
            NonMapping}

UnparsedForms == {"marker", "garbage", "name", "nonstr", "unhashable"}

DetailBlobs ==
    {ListBlob(items) : items \in SeqsUpTo(Items, MaxItems)}
      \cup {DictBlob(EmptyDict), OtherBlob("scalar")}
      \cup {OtherBlob(f) : f \in UnparsedForms}

FloorChunks ==
    {"prizemi", "Prizemi", "suteren", "SUTEREN", "-", "0", "1", "2", "patro"}

FloorInputs ==
    {PyStr(t) : t \in SeqsUpTo(FloorChunks, MaxFloorLen)}
      \cup {PyNone, PyNaN, PyInt(2)}

Lines == {"A", "B", "C", "D"}

Station(line, name, lat, lng) ==
    [line |-> line, name |-> name, lat |-> lat, lng |-> lng]

\* station places: name, latitude, longitude
Places ==
    { <<"Mustek", 0, 0>>, <<"Florenc", 1000, 0>>,
      <<"Dejvicka", 1001, 600>>, <<"Haje", 100000, 0>> }

Stations ==
    {Station(l, p[1], <<p[2]>>, <<p[3]>>) : l \in Lines, p \in Places}

FlatLats == {<< >>, <<0>>, <<1000>>}
FlatLons == {<< >>, <<0>>, <<600>>}

MetroInputs ==
    [lat : FlatLats, lon : FlatLons, metro_df : SeqsUpTo(Stations, MaxStations)]

NoRet == [exc |-> "", val |-> << >>]

\* line 12
MAX_CONCURRENT_REQUESTS == 10

\* the variables of run_scraping and load_and_prepare_data, at rest
RestIdle ==
    /\ tasks = << >>
    /\ semaphore = MAX_CONCURRENT_REQUESTS
    /\ completed = << >>
    /\ scrape_results = << >>
    /\ flats = NoFrame

\* the variables of process_raw_data, at rest
PipelineIdle ==
    /\ rawFile = << >>
    /\ metroFile = << >>
    /\ outputPath = FALSE
    /\ df = NoFrame
    /\ err = ""
    /\ outFile = << >>
    /\ RestIdle

pipelineVars == <<rawFile, metroFile, outputPath, df, err, outFile>>

\* a call f(arg): ret and the position after it
CallReturns(r) ==
    /\ pc = "call"
    /\ ret' = r
    /\ pc' = IF r.exc = "" THEN "returned" ELSE "raised"
    /\ UNCHANGED <<arg, pipelineVars, restVars>>

InitDetails == pc = "call" /\ arg \in DetailBlobs /\ ret = NoRet /\ PipelineIdle
CallExtractDetails ==
    LET r == extract_details(arg)
    IN  CallReturns([exc |-> r.exc, val |-> r.map])
SpecDetails == InitDetails /\ [][CallExtractDetails]_vars

InitFloor == pc = "call" /\ arg \in FloorInputs /\ ret = NoRet /\ PipelineIdle
CallExtractFloorNum ==
    CallReturns([exc |-> "", val |-> extract_floor_num(arg)])
SpecFloor == InitFloor /\ [][CallExtractFloorNum]_vars

InitMetro == pc = "call" /\ arg \in MetroInputs /\ ret = NoRet /\ PipelineIdle
CallGetMetroDistances ==
    CallReturns([exc |-> "",
                 val |-> get_metro_distances(arg.lat, arg.lon, arg.metro_df)])
SpecMetro == InitMetro /\ [][CallGetMetroDistances]_vars

---------------------------------------------------------------------------
(* Claims about extract_details (SpecDetails) *)

DetailKeys == {LabelRules[i][2] : i \in DOMAIN LabelRules}

C4_IsListOfMappings(blob) ==
    blob.form = "list" /\ \A i \in DOMAIN blob.items : blob.items[i].isdict

\* C4: extract_details never raises for any detail blob, and whenever the
\* blob does not deserialize into a list of mapping objects (it fails to
\* parse, parses to a non-list, or parses to a list that is not made only of
\* mappings) the returned map is empty.
C4_NeverRaisesEmptyOnMalformed ==
    pc # "call" =>
        /\ pc = "returned"
        /\ (~C4_IsListOfMappings(arg) => DOMAIN ret.val = {})

\* the key an entry sets, as C10 words it: none for a non-mapping or an
\* entry without a name, else the key of the first label, in the fixed
\* order, that the name contains ("": none)
C10_KeyOf(item) ==
    IF ~item.isdict \/ ~item.hasname \/ item.name.t # "str" THEN ""
    ELSE IF \A i \in DOMAIN LabelRules : ~Contains(LabelRules[i][1], item.name.s)
         THEN ""
         ELSE LabelRules[CHOOSE i \in DOMAIN LabelRules :
                           /\ Contains(LabelRules[i][1], item.name.s)
                           /\ \A j \in 1..(i - 1) :
                                ~Contains(LabelRules[j][1], item.name.s)][2]

C10_ValueOf(item) == IF item.hasvalue THEN item.value ELSE PyNone

\* the map C10 describes: a key exactly when some entry set it, with the
\* value of the last such entry in list order
C10_MapIsLastWrite(items, map) ==
    \A k \in DetailKeys :
        LET setters == {i \in DOMAIN items : C10_KeyOf(items[i]) = k}
        IN  /\ (k \in DOMAIN map) <=> (setters # {})
            /\ setters # {} =>
                 map[k] = C10_ValueOf(items[CHOOSE i \in setters :
                                              \A j \in setters : j <= i])

\* C10: for every detail blob that deserializes into a list, the returned
\* map holds a key exactly when some entry set it (an entry sets the key of
\* the first label, in the fixed order, that its name contains; non-mapping
\* and nameless entries set none), with the value of the last such entry;
\* so a blob with a usable-area label entry always has a usable_area key.
C10_ScanLastWriteWins ==
    (pc # "call" /\ arg.form = "list") =>
        /\ pc = "returned"
        /\ C10_MapIsLastWrite(arg.items, ret.val)

\* What C10 says of the map holds of every call that returns.
C10_ReturnedMapIsLastWrite ==
    (pc = "returned" /\ arg.form = "list") =>
        C10_MapIsLastWrite(arg.items, ret.val)

---------------------------------------------------------------------------
(* Claims about extract_floor_num (SpecFloor) *)

C5_HasChunk(text, chunks) == \E i \in DOMAIN text : text[i] \in chunks

RECURSIVE C5_Pow10(_)
C5_Pow10(k) == IF k = 0 THEN 1 ELSE 10 * C5_Pow10(k - 1)

RECURSIVE C5_Sum(_, _, _)
\* the decimal value of the digits text[p..q]
C5_Sum(text, p, q) ==
    IF p > q THEN 0
    ELSE DigitValue(text[p]) * C5_Pow10(q - p) + C5_Sum(text, p + 1, q)

\* the value of the first substring of digits optionally preceded by '-'
C5_FirstNumber(text) ==
    LET p == CHOOSE i \in DOMAIN text :
                 IsDigit(text[i]) /\ \A j \in 1..(i - 1) : ~IsDigit(text[j])
        q == CHOOSE j \in p..Len(text) :
                 /\ \A k \in p..j : IsDigit(text[k])
                 /\ (j = Len(text) \/ ~IsDigit(text[j + 1]))
    IN  IF p > 1 /\ text[p - 1] = "-"
        THEN 0 - C5_Sum(text, p, q) ELSE C5_Sum(text, p, q)

C5_Expected(v) ==
    IF v.t # "str" THEN 0
    ELSE IF C5_HasChunk(v.s, {"prizemi", "Prizemi"}) THEN 0
    ELSE IF C5_HasChunk(v.s, {"suteren", "SUTEREN"}) THEN -1
    ELSE IF \E i \in DOMAIN v.s : IsDigit(v.s[i]) THEN C5_FirstNumber(v.s)
    ELSE 0

\* C5: extract_floor_num returns 0 for an absent or non-string input;
\* otherwise, case-insensitively, 0 when the text contains the ground-floor
\* marker (even beside the basement marker or digits), else -1 when it
\* contains the basement marker (even beside digits), else the value of the
\* first substring of digits optionally preceded by a minus sign, else 0.
C5_FloorNumber ==
    pc = "returned" => ret.val = C5_Expected(arg)

\* a text with the basement marker, then the ground-floor marker in capitals,
\* then a signed number: the ground-floor marker decides
C5_Witness ==
    /\ pc = "returned"
    /\ arg = PyStr(<<"suteren", "Prizemi", "2">>)
    /\ ret.val = 0

---------------------------------------------------------------------------
(* Claims about get_metro_distances (SpecMetro) *)

C6_Distance(s) == haversine(arg.lon, arg.lat, s.lng, s.lat)[1]

C6_StationsOf(lines) ==
    {arg.metro_df[i] : i \in {j \in DOMAIN arg.metro_df :
                                arg.metro_df[j].line \in lines}}

C6_IsMinimum(d, stations) ==
    /\ \E s \in stations : C6_Distance(s) = d
    /\ \A s \in stations : d <= C6_Distance(s)

\* C6: with both coordinates present, each line A, B, C that has a station
\* in the table gets exactly the minimum distance over its stations, and the
\* nearest-station name is that of a station at minimal distance over the
\* whole table.
C6_PerLineMinimumAndNearest ==
    (pc = "returned" /\ arg.lat # << >> /\ arg.lon # << >>) =>
        /\ \A l \in {"A", "B", "C"} :
             C6_StationsOf({l}) # {} =>
                 /\ ret.val[DistCol(l)] # << >>
                 /\ C6_IsMinimum(ret.val[DistCol(l)][1], C6_StationsOf({l}))
        /\ C6_StationsOf(Lines) # {} =>
             /\ ret.val.nearest # << >>
             /\ \E s \in C6_StationsOf(Lines) :
                  /\ s.name = ret.val.nearest[1]
                  /\ C6_IsMinimum(C6_Distance(s), C6_StationsOf(Lines))

\* C7: when the latitude or the longitude is missing, get_metro_distances
\* returns, whatever the station table holds, three undefined distances
\* (neither zero nor the sentinel) and no nearest-station name.
C7_MissingCoordinates ==
    (pc # "call" /\ (arg.lat = << >> \/ arg.lon = << >>)) =>
        /\ pc = "returned"
        /\ ret.val.dist_A = << >>
        /\ ret.val.dist_B = << >>
        /\ ret.val.dist_C = << >>
        /\ ret.val.nearest = << >>

\* a listing with a latitude and no longitude, and a station table with a
\* station at the listing's latitude
C7_Witness ==
    /\ pc = "returned"
    /\ arg.lat = <<0>>
    /\ arg.lon = << >>
    /\ \E i \in DOMAIN arg.metro_df : arg.metro_df[i].lat = <<0>>
    /\ ret.val = MissingResult

---------------------------------------------------------------------------
(* DataFrame operations *)

\* df[column] = values
WithColumn(f, column, values) ==
    [f EXCEPT !.columns = f.columns \cup {column},
              !.rows = [i \in DOMAIN f.rows |-> Put(f.rows[i], column, values[i])]]

\* df.drop(columns=columns, errors='ignore')
drop_columns(f, columns) ==
    [f EXCEPT !.columns = f.columns \ columns,
              !.rows = [i \in DOMAIN f.rows |->
                          [c \in (DOMAIN f.rows[i]) \ columns |-> f.rows[i][c]]]]

\* df.rename(columns=mapping), mapping an operator on column names
rename_columns(f, To(_)) ==
    [f EXCEPT !.columns = {To(c) : c \in f.columns},
              !.rows = [i \in DOMAIN f.rows |->
                          [c \in {To(x) : x \in f.columns} |->
                             f.rows[i][CHOOSE x \in f.columns : To(x) = c]]]]

\* the positions of the rows a predicate keeps, in row order
RECURSIVE KeptPositions(_, _, _)
KeptPositions(rows, Keep(_), i) ==
    IF i > Len(rows) THEN << >>
    ELSE (IF Keep(rows[i]) THEN <<i>> ELSE << >>)
           \o KeptPositions(rows, Keep, i + 1)

\* df.dropna(subset=[column]): the rows keep their labels
dropna_keep_all(f, column) == f
dropna(f, column) ==
    LET kept == KeptPositions(f.rows, LAMBDA r : r[column] # << >>, 1)
    IN  [f EXCEPT !.index = [j \in DOMAIN kept |-> f.index[kept[j]]],
                  !.rows = [j \in DOMAIN kept |-> f.rows[kept[j]]]]

\* df.reset_index(drop=True)
reset_index_skipped(f) == f
reset_index(f) == [f EXCEPT !.index = RangeIndex(Len(f.rows))]

\* the position of a label in an index (0: not there)
PositionOf(index, label) ==
    IF \E i \in DOMAIN index : index[i] = label
    THEN CHOOSE i \in DOMAIN index : index[i] = label
    ELSE 0

\* the labels of a set, in ascending order
RECURSIVE SortedLabels(_)
SortedLabels(labels) ==
    IF labels = {} THEN << >>
    ELSE LET least == CHOOSE x \in labels : \A y \in labels : x <= y
         IN  <<least>> \o SortedLabels(labels \ {least})

\* pd.concat([f, g], axis=1): rows are joined on their labels; a label that
\* one frame lacks gets missing cells in that frame's columns
concat_columns(f, g) ==
    LET labels == {f.index[i] : i \in DOMAIN f.index}
                    \cup {g.index[i] : i \in DOMAIN g.index}
        index == IF f.index = g.index THEN f.index ELSE SortedLabels(labels)
        Cell(label, h, c) ==
            IF PositionOf(h.index, label) = 0 THEN << >>
            ELSE h.rows[PositionOf(h.index, label)][c]
    IN  [f EXCEPT
           !.columns = f.columns \cup g.columns,
           !.index = index,
           !.rows = [j \in DOMAIN index |->
                       [c \in f.columns \cup g.columns |->
                          IF c \in g.columns THEN Cell(index[j], g, c)
                          ELSE Cell(index[j], f, c)]]]

\* pd.DataFrame(dicts): a column for every key of some dict, a missing cell
\* where a dict lacks the key or holds None
frame_of_dicts(dicts) ==
    LET keys == UNION {DOMAIN dicts[i] : i \in DOMAIN dicts}
    IN  Frame(keys, RangeIndex(Len(dicts)),
              [i \in DOMAIN dicts |->
                 [k \in keys |->
                    IF k \in DOMAIN dicts[i] /\ dicts[i][k].t # "none"
                    THEN <<dicts[i][k]>> ELSE << >>]])

---------------------------------------------------------------------------
(* process_raw_data, stage by stage: each stage is [exc, df] *)

Ok(f) == [exc |-> "", df |-> f]
Fails(e) == [exc |-> e, df |-> NoFrame]

\* pd.read_csv(path) of a file that exists
read_csv(file) == Frame(file[1].columns, RangeIndex(Len(file[1].rows)), file[1].rows)

RequiredColumnsPresent_unchecked(f) == TRUE
\* 'price_czk' in df.columns
RequiredColumnsPresent(f) == "price_czk" \in f.columns

\* lines 171-187
load_data(raw, stations) ==
    IF raw = << >> THEN Fails("FileNotFoundError: Raw data file not found")
    ELSE IF stations = << >>
         THEN Fails("FileNotFoundError: Metro stations file not found")
         ELSE IF ~RequiredColumnsPresent(read_csv(raw))
              THEN Fails("ValueError: Missing required column: price_czk")
              ELSE Ok(read_csv(raw))

cols_to_drop ==
    {"Unnamed: 0", "hash_id", "advert_images", "advert_images_all",
     "premise_logo", "user_id", "premise_id", "price_summary",
     "price_currency_cb", "price_unit_cb", "price_summary_unit_cb",
     "has_matterport_url", "has_video", "advert_name", "premise"}

\* lines 189-196
drop_unnecessary(f) == Ok(drop_columns(f, cols_to_drop))

\* lines 198-201; dropna raises KeyError for a column the frame lacks
remove_missing_prices(f) ==
    IF "price_czk" \notin f.columns THEN Fails("KeyError: price_czk")
    ELSE Ok(reset_index(dropna(f, "price_czk")))

\* x.get(key) if isinstance(x, dict) else None
DictGet(x, key) ==
    IF x.form = "dict" /\ key \in DOMAIN x.d THEN <<x.d[key]>> ELSE << >>

\* lines 203-209
extract_locality(f) ==
    LET evals == [i \in DOMAIN f.rows |-> safe_eval(f.rows[i]["locality"])]
        Column(key) == [i \in DOMAIN f.rows |-> DictGet(evals[i].val, key)]
    IN  IF \E i \in DOMAIN evals : evals[i].exc # ""
        THEN Fails(evals[CHOOSE i \in DOMAIN evals : evals[i].exc # ""].exc)
        ELSE Ok(WithColumn(WithColumn(WithColumn(WithColumn(WithColumn(f,
                  "locality_dict", [i \in DOMAIN evals |-> evals[i].val]),
                  "city", Column("city")),
                  "district", Column("district")),
                  "lat", Column("gps_lat")),
                  "lon", Column("gps_lon")))

\* bool(x) of an evaluated blob: None and empty containers are falsy
TruthyValue(x) ==
    CASE x.form = "none" -> FALSE
      [] x.form = "dict" -> DOMAIN x.d # {}
      [] x.form = "list" -> x.items # << >>
      [] OTHER -> TRUE

\* safe_eval(x).get('name') if safe_eval(x) else None
category_name(x) ==
    LET r == safe_eval(x)
    IN  IF r.exc # "" THEN [exc |-> r.exc, val |-> << >>]
        ELSE IF ~TruthyValue(r.val) THEN [exc |-> "", val |-> << >>]
        ELSE IF r.val.form # "dict"
             THEN [exc |-> "AttributeError", val |-> << >>]
             ELSE [exc |-> "", val |-> DictGet(r.val, "name")]

category_cols == <<"category_main_cb", "category_sub_cb", "category_type_cb">>

\* lines 211-214, from the i-th category column on
RECURSIVE extract_categories_from(_, _)
extract_categories_from(f, k) ==
    IF k > Len(category_cols) THEN Ok(f)
    ELSE LET col == category_cols[k]
             names == [i \in DOMAIN f.rows |-> category_name(f.rows[i][col])]
         IN  IF col \notin f.columns THEN extract_categories_from(f, k + 1)
             ELSE IF \E i \in DOMAIN names : names[i].exc # ""
                  THEN Fails(names[CHOOSE i \in DOMAIN names :
                                     names[i].exc # ""].exc)
                  ELSE extract_categories_from(
                           WithColumn(f, col,
                                      [i \in DOMAIN names |-> names[i].val]),
                           k + 1)

extract_categories(f) == extract_categories_from(f, 1)

\* lines 216-220
extract_property_details(f) ==
    LET details_extracted ==
            [i \in DOMAIN f.rows |-> extract_details(f.rows[i]["detail"])]
        details_df ==
            frame_of_dicts([i \in DOMAIN f.rows |-> details_extracted[i].map])
    IN  IF \E i \in DOMAIN f.rows : details_extracted[i].exc # ""
        THEN Fails(details_extracted[
                     CHOOSE i \in DOMAIN f.rows :
                         details_extracted[i].exc # ""].exc)
        ELSE Ok(concat_columns(f, details_df))

\* the digit that int() reads as d
DigitChar(d) == CHOOSE c \in {"0", "1", "2", "3", "4", "5", "6", "7", "8", "9"} :
                    DigitValue(c) = d

\* str(n) of an int
RECURSIVE IntChars(_)
IntChars(n) ==
    IF n < 0 THEN <<"-">> \o IntChars(0 - n)
    ELSE IF n < 10 THEN <<DigitChar(n)>>
    ELSE IntChars(n \div 10) \o <<DigitChar(n % 10)>>

\* the text astype(str) makes of a cell
StrOf(cell) ==
    IF cell = << >> THEN <<"n", "a", "n">>
    ELSE CASE cell[1].t = "str" -> cell[1].s
           [] cell[1].t = "int" -> IntChars(cell[1].n)
           [] cell[1].t = "bool" ->
                IF cell[1].n = 1 THEN <<"T", "r", "u", "e">>
                ELSE <<"F", "a", "l", "s", "e">>
           [] OTHER -> <<"n", "a", "n">>

\* .str.replace(r'[^\d.]', '', regex=True)
StripNonNumeric(text) == SelectSeq(text, LAMBDA c : IsDigit(c) \/ c = ".")

\* a float m / 10^e without trailing zeros in its e decimals
RECURSIVE Decimal(_, _)
Decimal(m, e) ==
    IF e > 0 /\ m % 10 = 0 THEN Decimal(m \div 10, e - 1)
    ELSE [m |-> m, e |-> e]

\* pd.to_numeric(text, errors='coerce') of a text of digits and points
to_numeric(text) ==
    LET points == {i \in DOMAIN text : text[i] = "."}
        digits == SelectSeq(text, IsDigit)
    IN  IF digits = << >> \/ Cardinality(points) > 1 THEN << >>
        ELSE IF points = {}
             THEN <<Decimal(DigitsInt(digits, 1, Len(digits)), 0)>>
             ELSE <<Decimal(DigitsInt(digits, 1, Len(digits)),
                            Len(text) - (CHOOSE i \in points : TRUE))>>

clean_area(cell) == to_numeric(StripNonNumeric(StrOf(cell)))

\* lines 222-227
clean_usable_area(f) ==
    IF "usable_area" \notin f.columns THEN Ok(f)
    ELSE Ok(WithColumn(f, "usable_area",
                       [i \in DOMAIN f.rows |->
                          clean_area(f.rows[i]["usable_area"])]))

\* lines 229-231; a missing cell is the float NaN
extract_floor_numbers(f) ==
    IF "floor" \notin f.columns THEN Ok(f)
    ELSE Ok(WithColumn(f, "floor_num",
                       [i \in DOMAIN f.rows |->
                          extract_floor_num(
                              IF f.rows[i]["floor"] = << >> THEN PyNaN
                              ELSE f.rows[i]["floor"][1])]))

\* int(v) of astype(int): [exc, val]
to_int(v) ==
    IF v.t \in {"int", "bool"} THEN [exc |-> "", val |-> v.n]
    ELSE IF v.t = "str" /\ v.s # << >> /\ \A i \in DOMAIN v.s : IsDigit(v.s[i])
         THEN [exc |-> "", val |-> DigitsInt(v.s, 1, Len(v.s))]
         ELSE [exc |-> "ValueError", val |-> 0]

binary_cols == <<"terrace", "elevator">>

\* lines 233-236, from the k-th of the two columns on
RECURSIVE binary_flags_from(_, _)
binary_flags_from(f, k) ==
    IF k > Len(binary_cols) THEN Ok(f)
    ELSE LET col == binary_cols[k]
             ints == [i \in DOMAIN f.rows |->
                        IF f.rows[i][col] = << >> THEN [exc |-> "", val |-> 0]
                        ELSE to_int(f.rows[i][col][1])]
         IN  IF col \notin f.columns THEN binary_flags_from(f, k + 1)
             ELSE IF \E i \in DOMAIN ints : ints[i].exc # ""
                  THEN Fails("ValueError: invalid literal for int()")
                  ELSE binary_flags_from(
                           WithColumn(f, col, [i \in DOMAIN ints |-> ints[i].val]),
                           k + 1)

binary_flags(f) == binary_flags_from(f, 1)

cols_to_remove ==
    {"locality", "locality_dict", "detail", "floor", "price", "price_czk_m2",
     "price_summary_czk", "building_condition", "total_area"}

\* lines 238-241
remove_intermediate(f) == Ok(drop_columns(f, cols_to_remove))

PoiThreshold == 500
MetroThreshold == 1000

Flag_strict(cell, threshold) ==
    IF cell # << >> /\ cell[1] < threshold THEN 1 ELSE 0
\* (df[col] <= threshold).astype(int) of one cell; NaN <= x is False
Flag(cell, threshold) ==
    IF cell # << >> /\ cell[1] <= threshold THEN 1 ELSE 0

\* the columns whose name starts with 'poi_', and col.replace('poi_', '500m_')
PoiColumns == {"poi_metro_distance", "poi_school_distance"}
PoiFlagName(col) ==
    CASE col = "poi_metro_distance" -> "500m_metro_distance"
      [] col = "poi_school_distance" -> "500m_school_distance"

RECURSIVE add_poi_flags(_, _)
add_poi_flags(f, cols) ==
    IF cols = {} THEN f
    ELSE LET col == CHOOSE c \in cols : TRUE
         IN  add_poi_flags(
                 WithColumn(f, PoiFlagName(col),
                            [i \in DOMAIN f.rows |->
                               Flag(f.rows[i][col], PoiThreshold)]),
                 cols \ {col})

\* lines 243-249
poi_flags(f) ==
    LET dist_cols == f.columns \cap PoiColumns
    IN  Ok(drop_columns(add_poi_flags(f, dist_cols), dist_cols))

\* the texts of the categories, in the order sorting puts them
SortedTexts ==
    <<"Brno", "Byty", "Cihlova", "Dejvicka", "Domy", "Florenc", "Haje",
      "Kladno", "Mustek", "Osobni", "Panelova", "Praha", "Praha 1", "Stred">>
Rank(text) == CHOOSE i \in DOMAIN SortedTexts : SortedTexts[i] = text

\* the columns that extract_details fills hold Python scalars
DetailColumns == {LabelRules[i][2] : i \in DOMAIN LabelRules}

\* the category of a present cell, as a text
LevelOf(col, cell) ==
    IF col \in DetailColumns THEN cell[1].s[1] ELSE cell[1]

\* the distinct values observed in a column
Levels(f, col) ==
    {LevelOf(col, f.rows[i][col]) :
        i \in {j \in DOMAIN f.rows : f.rows[j][col] # << >>}}

KeptLevels_keep_all(f, col) == Levels(f, col)
\* drop_first=True: every level but the first in sorted order
KeptLevels(f, col) ==
    {l \in Levels(f, col) : \E m \in Levels(f, col) : Rank(m) < Rank(l)}

\* pd.get_dummies(df, columns=cols, drop_first=True)
get_dummies(f, cols) ==
    LET new == UNION {{<<c, l>> : l \in KeptLevels(f, c)} : c \in cols}
        g == drop_columns(f, cols)
    IN  [g EXCEPT !.dummies =
           [k \in (DOMAIN f.dummies) \cup new |->
              IF k \in DOMAIN f.dummies THEN f.dummies[k]
              ELSE [i \in DOMAIN f.rows |->
                      IF f.rows[i][k[1]] # << >>
                           /\ LevelOf(k[1], f.rows[i][k[1]]) = k[2]
                      THEN 1 ELSE 0]]]

categorical_cols ==
    {"category_main_cb", "category_sub_cb", "category_type_cb",
     "city", "district", "building_type", "ownership", "condition"}

\* lines 251-258
encode_categoricals(f) == Ok(get_dummies(f, categorical_cols \cap f.columns))

column_mapping(col) ==
    CASE col = "price_czk" -> "price"
      [] col = "lat" -> "latitude"
      [] col = "lon" -> "longitude"
      [] col = "usable_area" -> "area_usable"
      [] col = "terrace" -> "has_terrace"
      [] col = "elevator" -> "has_elevator"
      [] col = "floor_num" -> "floor_number"
      [] OTHER -> col

\* lines 260-270
rename_for_clarity(f) == Ok(rename_columns(f, column_mapping))

(* lines 272-276.  On a frame without rows DataFrame.apply calls the       *)
(* function on no row and returns a copy of the frame, whose columns are   *)
(* then assigned to the four new ones: pandas raises ValueError unless the *)
(* frame happens to have four columns.  Both outcomes are modelled.        *)
calculate_metro_distances(f, metro, empty_raises) ==
    LET results == [i \in DOMAIN f.rows |->
                      get_metro_distances(f.rows[i]["latitude"],
                                          f.rows[i]["longitude"], metro)]
        Column(key) == [i \in DOMAIN f.rows |-> results[i][key]]
    IN  IF f.rows = << >> /\ empty_raises
        THEN Fails("ValueError: Columns must be same length as key")
        ELSE Ok(WithColumn(WithColumn(WithColumn(WithColumn(f,
                  "metro_dist_A", Column("dist_A")),
                  "metro_dist_B", Column("dist_B")),
                  "metro_dist_C", Column("dist_C")),
                  "nearest_station", Column("nearest")))

metro_lines == <<"A", "B", "C">>
MetroDistCol(line) ==
    CASE line = "A" -> "metro_dist_A" [] line = "B" -> "metro_dist_B"
      [] line = "C" -> "metro_dist_C"
MetroFlagCol(line) ==
    CASE line = "A" -> "1000m_dist_A" [] line = "B" -> "1000m_dist_B"
      [] line = "C" -> "1000m_dist_C"

\* lines 278-282, from the k-th line on
RECURSIVE metro_flags_from(_, _)
metro_flags_from(f, k) ==
    IF k > Len(metro_lines) THEN f
    ELSE LET col == MetroDistCol(metro_lines[k])
         IN  IF col \notin f.columns THEN metro_flags_from(f, k + 1)
             ELSE metro_flags_from(
                      WithColumn(f, MetroFlagCol(metro_lines[k]),
                                 [i \in DOMAIN f.rows |->
                                    Flag(f.rows[i][col], MetroThreshold)]),
                      k + 1)

metro_flags(f) == Ok(metro_flags_from(f, 1))

\* lines 284-285
encode_nearest_station(f) == Ok(get_dummies(f, {"nearest_station"}))

---------------------------------------------------------------------------
(* process_raw_data as a state machine *)

functionVars == <<arg, ret>>

\* one stage: on success the frame is replaced; an exception ends the run
Stage(from, to, r) ==
    /\ pc = from
    /\ IF r.exc = ""
       THEN pc' = to /\ df' = r.df /\ err' = err
       ELSE pc' = "raised" /\ df' = df /\ err' = r.exc
    /\ UNCHANGED <<functionVars, rawFile, metroFile, outputPath, outFile,
                   restVars>>

LoadData == Stage("start", "loaded", load_data(rawFile, metroFile))
DropUnnecessary == Stage("loaded", "dropped", drop_unnecessary(df))
RemoveMissingPrices == Stage("dropped", "priced", remove_missing_prices(df))
ExtractLocality == Stage("priced", "located", extract_locality(df))
ExtractCategories == Stage("located", "categorised", extract_categories(df))
ExtractPropertyDetails ==
    Stage("categorised", "detailed", extract_property_details(df))
CleanUsableArea == Stage("detailed", "cleaned", clean_usable_area(df))
ExtractFloorNumbers == Stage("cleaned", "floored", extract_floor_numbers(df))
BinaryFlags == Stage("floored", "binarised", binary_flags(df))
RemoveIntermediate == Stage("binarised", "trimmed", remove_intermediate(df))
PoiFlags == Stage("trimmed", "flagged", poi_flags(df))
EncodeCategoricals == Stage("flagged", "encoded", encode_categoricals(df))
RenameForClarity == Stage("encoded", "renamed", rename_for_clarity(df))
CalculateMetroDistances ==
    /\ pc = "renamed"
    /\ \E empty_raises \in (IF df.rows = << >> THEN BOOLEAN ELSE {FALSE}) :
         Stage("renamed", "measured",
               calculate_metro_distances(df, metroFile[1], empty_raises))
MetroFlags == Stage("measured", "metro_flagged", metro_flags(df))
EncodeNearestStation ==
    Stage("metro_flagged", "station_encoded", encode_nearest_station(df))

\* lines 289-294: df.to_csv(output_path) if output_path, then return df
Save ==
    /\ pc = "station_encoded"
    /\ outFile' = IF outputPath THEN <<df>> ELSE outFile
    /\ pc' = "done"
    /\ UNCHANGED <<functionVars, rawFile, metroFile, outputPath, df, err,
                   restVars>>

Next ==
    \/ LoadData
    \/ DropUnnecessary
    \/ RemoveMissingPrices
    \/ ExtractLocality
    \/ ExtractCategories
    \/ ExtractPropertyDetails
    \/ CleanUsableArea
    \/ ExtractFloorNumbers
    \/ BinaryFlags
    \/ RemoveIntermediate
    \/ PoiFlags
    \/ EncodeCategoricals
    \/ RenameForClarity
    \/ CalculateMetroDistances
    \/ MetroFlags
    \/ EncodeNearestStation
    \/ Save

---------------------------------------------------------------------------
(* Inputs of process_raw_data *)

MaxRows == 2

\* a locality blob: city, district, latitude, longitude (<< >>: key absent)
Locality(city, district, lat, lon) ==
    DictBlob([k \in {x \in {"city", "district", "gps_lat", "gps_lon"} :
                       CASE x = "city" -> city # << >>
                         [] x = "district" -> district # << >>
                         [] x = "gps_lat" -> lat # << >>
                         [] x = "gps_lon" -> lon # << >>} |->
                CASE k = "city" -> city[1]
                  [] k = "district" -> district[1]
                  [] k = "gps_lat" -> lat[1]
                  [] k = "gps_lon" -> lon[1]])

LocPraha == Locality(<<"Praha">>, <<"Praha 1">>, <<0>>, <<0>>)
LocBrno == Locality(<<"Brno">>, << >>, <<1000>>, << >>)
LocKladno == Locality(<<"Kladno">>, <<"Stred">>, <<1002>>, <<0>>)

Entry(name, value) == Mapping(TRUE, PyStr(name), TRUE, value)

\* [{'name': 'Uzitna plocha', 'value': '54'}, {'name': 'Podlazi',
\*   'value': '2 patro'}, {'name': 'Terasa', 'value': True}]
DetailA ==
    ListBlob(<<Entry(<<"Uzitna ploch", "a">>, PyStr(<<"5", "4">>)),
               Entry(<<"Podlazi">>, PyStr(<<"2", "patro">>)),
               Entry(<<"Terasa">>, PyBool(TRUE))>>)

\* [3, {'name': 'Uzitna plocha', 'value': '54 m2'}, {'name': 'Vytah',
\*   'value': True}, {'name': 'Stavba', 'value': 'Cihlova'}]
DetailB ==
    ListBlob(<<NonMapping,
               Entry(<<"Uzitna ploch", "a">>, PyStr(<<"5", "4", " ", "m", "2">>)),
               Entry(<<"Vytah">>, PyBool(TRUE)),
               Entry(<<"Stavba">>, PyStr(<<"Cihlova">>))>>)

\* [{'name': 5, 'value': 1}]
DetailBadName == ListBlob(<<Mapping(TRUE, PyInt(5), TRUE, PyInt(1))>>)

RawRow(price, locality, detail, poi) ==
    [hash_id |-> <<1>>, price_czk |-> price, locality |-> locality,
     detail |-> detail, poi_metro_distance |-> poi]

Prices == {<< >>, <<100>>}

RowKinds ==
    {RawRow(p, l, d, <<500>>) :
        p \in Prices,
        l \in {LocPraha, LocBrno, OtherBlob("garbage")},
        d \in {DetailA, DetailB, OtherBlob("marker"), DetailBadName}}

Table(rows) ==
    [columns |-> {"hash_id", "price_czk", "locality", "detail",
                  "poi_metro_distance"},
     rows |-> rows]

\* a listing table without the price_czk column
NoPriceTable ==
    [columns |-> {"hash_id", "locality", "detail"},
     rows |-> <<[hash_id |-> <<1>>, locality |-> LocPraha, detail |-> DetailA]>>]

StationTable ==
    <<Station("A", "Mustek", <<1000>>, <<0>>),
      Station("B", "Florenc", <<1001>>, <<0>>),
      Station("C", "Haje", <<100000>>, <<0>>)>>

Input(raw, stations, output_path) ==
    [raw |-> raw, metro |-> stations, out |-> output_path]

Inputs ==
    {Input(<<Table(rows)>>, <<StationTable>>, o) :
        rows \in SeqsUpTo(RowKinds, MaxRows), o \in BOOLEAN}
      \cup {Input(<<Table(rows)>>, << >>, TRUE) : rows \in SeqsUpTo(RowKinds, 1)}
      \cup {Input(<< >>, m, TRUE) : m \in {<< >>, <<StationTable>>}}
      \cup {Input(<<NoPriceTable>>, m, TRUE) : m \in {<< >>, <<StationTable>>}}

InitWith(inputs) ==
    /\ pc = "start"
    /\ \E in \in inputs :
         rawFile = in.raw /\ metroFile = in.metro /\ outputPath = in.out
    /\ df = NoFrame
    /\ err = ""
    /\ outFile = << >>
    /\ arg = << >>
    /\ ret = NoRet
    /\ RestIdle

Init == InitWith(Inputs)
Spec == Init /\ [][Next]_vars

\* listing tables for the encoder: every row has a price
RowWithCategory(locality, poi, category) ==
    [hash_id |-> <<1>>, price_czk |-> <<100>>, locality |-> locality,
     detail |-> DetailB, poi_metro_distance |-> poi,
     category_main_cb |-> category]

EncRowKinds ==
    {RowWithCategory(l, p, c) :
        l \in {LocPraha, LocKladno, OtherBlob("garbage")},
        p \in {<< >>, <<500>>, <<501>>},
        c \in {DictBlob([name |-> "Byty"]), DictBlob([name |-> "Domy"]),
               OtherBlob("nonstr")}}

EncTable(rows) ==
    [columns |-> {"hash_id", "price_czk", "locality", "detail",
                  "poi_metro_distance", "category_main_cb"},
     rows |-> rows]

EncInputs ==
    {Input(<<EncTable(rows)>>, <<StationTable>>, TRUE) :
        rows \in SeqsUpTo(EncRowKinds, MaxRows)}

InitEnc == InitWith(EncInputs)
SpecEnc == InitEnc /\ [][Next]_vars

---------------------------------------------------------------------------
(* Claims about process_raw_data (Spec, SpecEnc) *)

\* the rows of the raw listing table, and those with a price
RawRows == rawFile[1].rows
Priced == {i \in DOMAIN RawRows : RawRows[i]["price_czk"] # << >>}

\* the raw row of the j-th output row: the j-th row that has a price
SourceOf(j) ==
    RawRows[CHOOSE i \in Priced :
                Cardinality({k \in Priced : k < i}) = j - 1]

\* what the row's own blobs give
OwnLocality(src, key) == DictGet(safe_eval(src["locality"]).val, key)
OwnDetails(src) == extract_details(src["detail"]).map
OwnMetro(src) ==
    get_metro_distances(OwnLocality(src, "gps_lat"),
                        OwnLocality(src, "gps_lon"), metroFile[1])

\* an indicator column of a categorical column is 1 in row j exactly when
\* the row's own value is the column's level
OwnIndicators(j, col, value) ==
    \A k \in DOMAIN df.dummies :
        k[1] = col => (df.dummies[k][j] = 1 <=> value = <<k[2]>>)

EnrichedColumns ==
    {"locality_dict", "city", "district", "lat", "lon", "latitude",
     "longitude", "usable_area", "area_usable", "floor", "floor_num",
     "floor_number", "terrace", "elevator", "has_terrace", "has_elevator",
     "metro_dist_A", "metro_dist_B", "metro_dist_C", "nearest_station"}

C1_OwnValues(j, src) ==
    LET row == df.rows[j]
        det == OwnDetails(src)
        Has(col) == col \in df.columns
    IN  /\ row["price"] = src["price_czk"]
        /\ row["latitude"] = OwnLocality(src, "gps_lat")
        /\ row["longitude"] = OwnLocality(src, "gps_lon")
        /\ OwnIndicators(j, "city", OwnLocality(src, "city"))
        /\ OwnIndicators(j, "district", OwnLocality(src, "district"))
        /\ Has("area_usable") =>
             row["area_usable"] =
                 (IF "usable_area" \in DOMAIN det
                  THEN clean_area(<<det["usable_area"]>>) ELSE << >>)
        /\ Has("floor_number") =>
             row["floor_number"] =
                 (IF "floor" \in DOMAIN det
                  THEN extract_floor_num(det["floor"]) ELSE 0)
        /\ Has("has_terrace") =>
             row["has_terrace"] =
                 (IF "terrace" \in DOMAIN det THEN det["terrace"].n ELSE 0)
        /\ Has("has_elevator") =>
             row["has_elevator"] =
                 (IF "elevator" \in DOMAIN det THEN det["elevator"].n ELSE 0)
        /\ row["metro_dist_A"] = OwnMetro(src).dist_A
        /\ row["metro_dist_B"] = OwnMetro(src).dist_B
        /\ row["metro_dist_C"] = OwnMetro(src).dist_C
        /\ OwnIndicators(j, "nearest_station", OwnMetro(src).nearest)

\* C1: for every listing table process_raw_data accepts, the output has
\* exactly one row for each input row with a price, in the same order, and
\* none for a row without; every derived field of an output row comes from
\* the blobs of its own input row; and no row without a price is left once
\* any enrichment column exists.
C1_RowCorrespondence ==
    /\ pc = "done" =>
         /\ Len(df.rows) = Cardinality(Priced)
         /\ \A j \in DOMAIN df.rows : C1_OwnValues(j, SourceOf(j))
    /\ df.columns \cap EnrichedColumns # {} =>
         \A j \in DOMAIN df.rows :
             df.rows[j][IF "price" \in df.columns THEN "price"
                        ELSE "price_czk"] # << >>

\* a table whose first row has no price and whose second has one: the one
\* output row carries the second row's values
C1_Witness ==
    /\ pc = "done"
    /\ Len(RawRows) = 2
    /\ RawRows[1] = RawRow(<< >>, LocBrno, DetailB, <<500>>)
    /\ RawRows[2] = RawRow(<<100>>, LocPraha, DetailA, <<500>>)
    /\ Len(df.rows) = 1
    /\ df.rows[1]["latitude"] = <<0>>
    /\ df.rows[1]["floor_number"] = 2
    /\ df.rows[1]["metro_dist_A"] = <<1000>>

\* C2: when the raw listing file, the station file or the price_czk column
\* is missing, the run ends with the typed error that names it
\* (FileNotFoundError for a file, ValueError for the column), and the output
\* file is written only by the last step of a run whose stages all completed.
C2_MissingInputIsTypedError ==
    /\ (pc # "start" /\ rawFile = << >>) =>
         pc = "raised" /\ err = "FileNotFoundError: Raw data file not found"
    /\ (pc # "start" /\ rawFile # << >> /\ metroFile = << >>) =>
         pc = "raised" /\ err = "FileNotFoundError: Metro stations file not found"
    /\ (pc # "start" /\ rawFile # << >> /\ metroFile # << >>
          /\ "price_czk" \notin rawFile[1].columns) =>
         pc = "raised" /\ err = "ValueError: Missing required column: price_czk"
    /\ outFile # << >> => pc = "done" /\ err = "" /\ outFile = <<df>>
    /\ pc = "raised" => outFile = << >>

\* a run given an output path and a listing table without the price column
C2_Witness ==
    /\ pc = "raised"
    /\ rawFile = <<NoPriceTable>>
    /\ metroFile # << >>
    /\ outputPath
    /\ err = "ValueError: Missing required column: price_czk"
    /\ outFile = << >>

\* C3: for a listing table with a price column, a malformed detail or
\* locality blob in a row never aborts process_raw_data, and the row's
\* derived values are absent: no area for a detail blob that is no list, no
\* coordinates and no distances for a locality blob that is no mapping.
C3_MalformedBlobNeverAborts ==
    (rawFile # << >> /\ metroFile # << >>
       /\ "price_czk" \in rawFile[1].columns /\ Priced # {}) =>
        /\ pc # "raised"
        /\ pc = "done" =>
             \A j \in DOMAIN df.rows :
                 /\ (SourceOf(j)["detail"].form # "list"
                       /\ "area_usable" \in df.columns) =>
                        df.rows[j]["area_usable"] = << >>
                 /\ SourceOf(j)["locality"].form # "dict" =>
                        /\ df.rows[j]["latitude"] = << >>
                        /\ df.rows[j]["metro_dist_A"] = << >>

\* C8: in the output of process_raw_data every proximity flag is 1 exactly
\* when its distance is present and at most its threshold, boundary
\* included, and 0 otherwise: 500m_metro_distance against 500 for the
\* row's poi_metro_distance, 1000m_dist_L against 1000 for the row's
\* metro_dist_L, for each line L in A, B, C.
C8_InclusiveProximityFlags ==
    pc = "done" =>
        \A j \in DOMAIN df.rows :
            LET row == df.rows[j]
                poi == SourceOf(j)["poi_metro_distance"]
            IN  /\ row["500m_metro_distance"] =
                       (IF poi # << >> /\ poi[1] <= 500 THEN 1 ELSE 0)
                /\ \A line \in {"A", "B", "C"} :
                       LET dist == row[MetroDistCol(line)]
                       IN  row[MetroFlagCol(line)] =
                               (IF dist # << >> /\ dist[1] <= 1000
                                THEN 1 ELSE 0)

\* a row at 500 from its point of interest, 1000 from line A and 1001 from
\* line B, beside a row at 501
C8_Witness ==
    /\ pc = "done"
    /\ Len(df.rows) = 2
    /\ RawRows[1]["poi_metro_distance"] = <<500>>
    /\ df.rows[1]["500m_metro_distance"] = 1
    /\ df.rows[1]["metro_dist_A"] = <<1000>>
    /\ df.rows[1]["1000m_dist_A"] = 1
    /\ df.rows[1]["metro_dist_B"] = <<1001>>
    /\ df.rows[1]["1000m_dist_B"] = 0
    /\ RawRows[2]["poi_metro_distance"] = <<501>>
    /\ df.rows[2]["500m_metro_distance"] = 0

\* the value a raw row has in a categorical column
C9_Own(col, src) ==
    CASE col \in {"city", "district"} -> OwnLocality(src, col)
      [] col \in {"category_main_cb", "category_sub_cb",
                  "category_type_cb"} -> category_name(src[col]).val
      [] col = "nearest_station" -> OwnMetro(src).nearest
      [] OTHER -> IF col \in DOMAIN OwnDetails(src)
                  THEN <<OwnDetails(src)[col].s[1]>> ELSE << >>

\* the categorical columns the run expands
C9_Expanded ==
    {col \in categorical_cols \cup {"nearest_station"} :
        \/ col \in {"city", "district", "nearest_station"}
        \/ col \in rawFile[1].columns
        \/ \E i \in Priced : col \in DOMAIN OwnDetails(RawRows[i])}

\* k: the number of distinct values observed in the column
C9_Observed(col) ==
    Cardinality({C9_Own(col, RawRows[i])[1] :
                    i \in {p \in Priced : C9_Own(col, RawRows[p]) # << >>}})

C9_Indicators(col) == {key \in DOMAIN df.dummies : key[1] = col}

C9_NoneOrOne(col) ==
    \A j \in DOMAIN df.rows :
        /\ \A key \in C9_Indicators(col) : df.dummies[key][j] \in {0, 1}
        /\ Cardinality({key \in C9_Indicators(col) :
                           df.dummies[key][j] = 1}) <= 1

---------------------------------------------------------------------------
(* src/scrape_estate_details.py: get_estate_detail and run_scraping *)

MaxIds == 2
HashIds == {1, 2}

\* how client.get, raise_for_status and r.json() end for one request:
\* a body with items, a body without (no "items" key, or an empty list),
\* an HTTP error status, a timeout, a connection error, an undecodable body
Successes == {"items", "no_items"}
Failures == {"http_error", "timeout", "connect_error", "undecodable"}
Outcomes == Successes \cup Failures

\* lines 23-31: the record get_estate_detail returns
get_estate_detail(hash_id, outcome) ==
    [hash_id |-> hash_id,
     detail |->
        IF outcome = "items" THEN [form |-> "list", of |-> <<hash_id>>]
        ELSE IF outcome = "no_items" THEN [form |-> "none", of |-> << >>]
        ELSE [form |-> "marker", of |-> <<"Error: ", outcome>>]]

\* line 40: one coroutine per hash_id, none started
create_tasks(hash_ids) ==
    [i \in DOMAIN hash_ids |->
        [at |-> "created", hash_id |-> hash_ids[i], outcome |-> ""]]

\* the records in the order the tasks completed
gather_as_completed(done) == [k \in DOMAIN done |-> done[k][2]]
\* line 41: tqdm.gather collects (index, result) pairs as the tasks
\* complete, sorts them, and returns the results
gather(done) ==
    [i \in DOMAIN done |->
        done[CHOOSE k \in DOMAIN done : done[k][1] = i][2]]

InitScrape ==
    /\ pc = "gathering"
    /\ arg \in SeqsUpTo(HashIds, MaxIds)
    /\ tasks = create_tasks(arg)
    /\ semaphore = MAX_CONCURRENT_REQUESTS
    /\ completed = << >>
    /\ scrape_results = << >>
    /\ ret = NoRet
    /\ flats = NoFrame
    /\ rawFile = << >> /\ metroFile = << >> /\ outputPath = FALSE
    /\ df = NoFrame /\ err = "" /\ outFile = << >>

scrapeRest == <<arg, ret, pipelineVars, flats>>

\* lines 20-22: the task enters the semaphore and starts its delay
Acquire(i) ==
    /\ tasks[i].at = "created"
    /\ semaphore > 0
    /\ semaphore' = semaphore - 1
    /\ tasks' = [tasks EXCEPT ![i].at = "sleeping"]
    /\ UNCHANGED <<pc, completed, scrape_results, scrapeRest>>

\* lines 22-23: the delay is over and the request is sent
Request(i) ==
    /\ tasks[i].at = "sleeping"
    /\ tasks' = [tasks EXCEPT ![i].at = "fetching"]
    /\ UNCHANGED <<pc, semaphore, completed, scrape_results, scrapeRest>>

\* lines 23-31: the request ends, the task returns its record and leaves
\* the semaphore
Respond(i) ==
    /\ tasks[i].at = "fetching"
    /\ \E outcome \in Outcomes :
         /\ tasks' = [tasks EXCEPT ![i].at = "done", ![i].outcome = outcome]
         /\ completed' =
                Append(completed,
                       <<i, get_estate_detail(tasks[i].hash_id, outcome)>>)
    /\ semaphore' = semaphore + 1
    /\ UNCHANGED <<pc, scrape_results, scrapeRest>>

\* lines 41-42: every task is done and run_scraping returns the list
Gather ==
    /\ pc = "gathering"
    /\ Len(completed) = Len(tasks)
    /\ scrape_results' = <<gather(completed)>>
    /\ pc' = "returned"
    /\ UNCHANGED <<tasks, semaphore, completed, scrapeRest>>

NextScrape ==
    \/ \E i \in DOMAIN tasks : Acquire(i)
    \/ \E i \in DOMAIN tasks : Request(i)
    \/ \E i \in DOMAIN tasks : Respond(i)
    \/ Gather

\* the event loop runs every task that can run, and a request ends within
\* its timeout (line 23)
SpecScrape == InitScrape /\ [][NextScrape]_vars /\ WF_vars(NextScrape)

\* the record the claim gives the i-th hash_id: its own items (or None)
\* when its fetch succeeded, an "Error: ..." marker when it failed
C11_IsRecordOf(rec, i) ==
    /\ rec.hash_id = arg[i]
    /\ tasks[i].outcome \in Failures =>
         rec.detail.form = "marker" /\ rec.detail.of[1] = "Error: "
    /\ tasks[i].outcome = "items" =>
         rec.detail.form = "list" /\ rec.detail.of = <<arg[i]>>
    /\ tasks[i].outcome = "no_items" => rec.detail.form = "none"

C11_OneRecordEach ==
    scrape_results # << >> =>
        /\ Len(scrape_results[1]) = Len(arg)
        /\ \A i \in DOMAIN arg : C11_IsRecordOf(scrape_results[1][i], i)

\* C11: for every list of hash_ids and every pattern of fetch failures
\* across the concurrent tasks, run_scraping completes and returns exactly
\* one record per input hash_id, in input order; the record of a failed
\* fetch carries an "Error: ..." marker, and every record depends only on
\* its own hash_id and its own fetch.
C11_BatchSurvivesFailures ==
    /\ []C11_OneRecordEach
    /\ <>(pc = "returned" /\ scrape_results # << >>)

\* two requests, the second answered first; the first fails and the second
\* succeeds
C11_Witness ==
    /\ pc = "returned"
    /\ Len(arg) = 2
    /\ completed[1][1] = 2
    /\ tasks[1].outcome = "timeout"
    /\ tasks[2].outcome = "items"
    /\ scrape_results[1][1].detail.form = "marker"
    /\ scrape_results[1][2].detail = [form |-> "list", of |-> <<arg[2]>>]

---------------------------------------------------------------------------
(* src/unnamed/part_000: load_and_prepare_data, run on the file that *)
(* process_raw_data wrote and on the station file                     *)

\* line 10: the file to_csv(index=False) wrote, read back: the rows and
\* columns with a fresh index
read_flats(file) == [file[1] EXCEPT !.index = RangeIndex(Len(file[1].rows))]

\* line 14: price / area_usable, missing when either is
price_per_m2(row) ==
    IF row["price"] = << >> \/ row["area_usable"] = << >> THEN << >>
    ELSE <<[price |-> row["price"][1], per |-> row["area_usable"][1]]>>

\* line 17: the columns whose name starts with 'nearest_station_'
station_cols(f) == {key \in DOMAIN f.dummies : key[1] = "nearest_station"}

\* idxmax(axis=1) of row i over the columns cols (not empty): the first
\* column, in the frame's order, that holds the row's maximum
idxmax(f, cols, i) ==
    LET top == IF \E key \in cols : f.dummies[key][i] = 1 THEN 1 ELSE 0
        tops == {key \in cols : f.dummies[key][i] = top}
    IN  CHOOSE key \in tops : \A other \in tops : Rank(key[2]) <= Rank(other[2])

\* .str.replace('nearest_station_', ''): the column's name without the prefix
without_prefix(key) == key[2]

\* lines 10-18; on a frame with no station column idxmax is taken over no
\* columns, and the call raises or names no station (no_columns)
name_stations(file, no_columns) ==
    LET f == read_flats(file)
        g == IF {"price", "area_usable"} \subseteq f.columns
             THEN WithColumn(f, "price_per_m2",
                             [i \in DOMAIN f.rows |-> price_per_m2(f.rows[i])])
             ELSE f
        cols == station_cols(g)
    IN  IF ~({"price", "area_usable"} \subseteq f.columns) THEN Fails("KeyError")
        ELSE IF cols = {}
        THEN (IF no_columns = "names_missing"
              THEN Ok(WithColumn(g, "nearest_station",
                                 [i \in DOMAIN g.rows |-> << >>]))
              ELSE Fails(no_columns))
        ELSE Ok(WithColumn(g, "nearest_station",
                           [i \in DOMAIN g.rows |->
                              <<without_prefix(idxmax(g, cols, i))>>]))

\* the pairs (row of the left frame, matching station or 0) of the left
\* merge, from the i-th row on
RECURSIVE merge_pairs(_, _, _)
merge_pairs(f, metro, i) ==
    IF i > Len(f.rows) THEN << >>
    ELSE LET matches ==
                 SelectSeq([k \in DOMAIN metro |-> k],
                           LAMBDA k : f.rows[i]["nearest_station"]
                                          = <<metro[k].name>>)
         IN  (IF matches = << >> THEN << <<i, 0>> >>
              ELSE [m \in DOMAIN matches |-> <<i, matches[m]>>])
               \o merge_pairs(f, metro, i + 1)

\* lines 20-24: the left merge with the stations' name and line, then the
\* rows that have a price per m2 and a line
merge_lines(f, metro) ==
    LET pairs == merge_pairs(f, metro, 1)
        Cell(k, field) ==
            IF pairs[k][2] = 0 THEN << >> ELSE <<metro[pairs[k][2]][field]>>
        merged ==
            [columns |-> f.columns \cup {"name", "line"},
             index |-> RangeIndex(Len(pairs)),
             rows |-> [k \in DOMAIN pairs |->
                         Put(Put(f.rows[pairs[k][1]], "name", Cell(k, "name")),
                             "line", Cell(k, "line"))],
             dummies |-> [key \in DOMAIN f.dummies |->
                            [k \in DOMAIN pairs |-> f.dummies[key][pairs[k][1]]]]]
        kept == KeptPositions(merged.rows,
                              LAMBDA r : r["price_per_m2"] # << >>
                                           /\ r["line"] # << >>, 1)
    IN  [merged EXCEPT
           !.index = [j \in DOMAIN kept |-> merged.index[kept[j]]],
           !.rows = [j \in DOMAIN kept |-> merged.rows[kept[j]]],
           !.dummies = [key \in DOMAIN merged.dummies |->
                          [j \in DOMAIN kept |-> merged.dummies[key][kept[j]]]]]

analysisRest ==
    <<functionVars, rawFile, metroFile, outputPath, df, outFile, scrapeVars>>

NoColumnsOutcomes == {"ValueError", "AttributeError", "names_missing"}

\* lines 10-18 of load_and_prepare_data(output_path, metro_path)
NameStations ==
    /\ pc = "done"
    /\ outFile # << >>
    /\ \E no_columns \in NoColumnsOutcomes :
         LET r == name_stations(outFile, no_columns)
         IN  IF r.exc = ""
             THEN pc' = "stations_named" /\ flats' = r.df /\ err' = err
             ELSE pc' = "raised" /\ flats' = flats /\ err' = r.exc
    /\ UNCHANGED analysisRest

\* lines 20-24
MergeLines ==
    /\ pc = "stations_named"
    /\ flats' = merge_lines(flats, metroFile[1])
    /\ pc' = "prepared"
    /\ UNCHANGED <<err, analysisRest>>

NextAnalysis ==
    \/ Next
    \/ NameStations
    \/ MergeLines

SpecAnalysis == InitEnc /\ [][NextAnalysis]_vars

\* C12: for every output row of process_raw_data that has a nearest
\* station, the name load_and_prepare_data rebuilds from the
\* nearest_station_* indicator columns equals the name get_metro_distances
\* computed for that row, also when the row's station is the reference
\* category that the drop-first encoding left out.
C12_NearestStationRoundTrip ==
    pc = "stations_named" =>
        \A j \in DOMAIN flats.rows :
            OwnMetro(SourceOf(j)).nearest # << >> =>
                flats.rows[j]["nearest_station"]
                    = OwnMetro(SourceOf(j)).nearest

=============================================================================
